---- MODULE Spec2Model ----
(***************************************************************************)
(* A model of the cachefunctions package: the FunctionCache class (key     *)
(* construction, lookup/insert in the wrapped call, load at construction,  *)
(* save on request and on teardown), the cachefunction decorator, and the  *)
(* two functions the repository wraps (slowfunction and add2).             *)
(*                                                                         *)
(* One storage location is modelled.  A program run constructs caches,     *)
(* wraps functions, calls them, saves, drops references and finally exits; *)
(* at exit the runtime finalizes what is left, before or after it has torn *)
(* down the module state that save() needs.                                *)
(***************************************************************************)
EXTENDS Integers, Sequences, FiniteSets, TLC

\* ---------------------------------------------------------------- bounds
MaxArgs == 2        \* arguments (positional plus named) of one call
MaxCalls == 2       \* wrapped calls in one run of the life-cycle program
MaxKeyCalls == 3    \* wrapped calls in one run of the calling program

\* ------------------------------------------------------- argument values
Vals == {1, 2}
\* An argument value that cannot be hashed: 0 stands for a list.
Unhashables == {0}
Names == {"a", "b", "c"}
Funs == {"slowfunction", "add2"}
\* The places of a program that can each hold one FunctionCache at a time; a
\* place is free again once its object is gone.
Objs == {1, 2}

\* Python compares str keys lexicographically: "a" < "b" < "c".
Ord(name) == IF name = "a" THEN 1 ELSE IF name = "b" THEN 2 ELSE 3

SeqsUpTo(S, n) == UNION {[1..m -> S] : m \in 0..n}

\* A keyword-argument dict as the call site builds it: (name, value) pairs in
\* the order the names were written, no name twice.
KwDicts(n) ==
    {kw \in SeqsUpTo(Names \X Vals, n) :
        \A i, j \in 1..Len(kw) : i # j => kw[i][1] # kw[j][1]}

\* The call sites that pass a list: f([..]) and f(name=[..]).
ListSites ==
    {[args |-> <<v>>, kwargs |-> <<>>] : v \in Unhashables}
    \cup {[args |-> <<>>, kwargs |-> <<<<n, v>>>>] : n \in Names, v \in Unhashables}

\* Every call site within the bounds: positional values, then named ones; and
\* the sites that pass a list.
AllSites ==
    {s \in [args : SeqsUpTo(Vals, MaxArgs), kwargs : KwDicts(MaxArgs)] :
        Len(s.args) + Len(s.kwargs) <= MaxArgs}
    \cup ListSites

\* All argument values of a call site can be hashed.
HashableSite(site) ==
    /\ \A i \in 1..Len(site.args) : site.args[i] \notin Unhashables
    /\ \A i \in 1..Len(site.kwargs) : site.kwargs[i][2] \notin Unhashables

\* ------------------------------------------------------ key construction
\* sorted(items, key=lambda x: x[0]): insertion of each item before the first
\* element whose name is greater (stable).
RECURSIVE SortedInsert(_, _)
SortedInsert(item, sorted) ==
    IF sorted = <<>> THEN <<item>>
    ELSE IF Ord(item[1]) < Ord(Head(sorted)[1])
         THEN <<item>> \o sorted
         ELSE <<Head(sorted)>> \o SortedInsert(item, Tail(sorted))

RECURSIVE SortedByName(_)
SortedByName(items) ==
    IF items = <<>> THEN <<>>
    ELSE SortedInsert(items[Len(items)], SortedByName(SubSeq(items, 1, Len(items) - 1)))

\* tuple(di.items()) if the sort were left out: the pairs in call-site order.
dict2tupleUnsorted(di) == di

\* dict2tuple(di): tuple(sorted(di.items(), key=lambda x: x[0]))
dict2tuple(di) == SortedByName(di)

\* A key that would keep the positional values but not their order.
makekeyUnordered(args, kwargs) ==
    <<{args[i] : i \in 1..Len(args)}, dict2tuple(kwargs)>>

\* A key that would bind the positional values to the parameter names.
ParamName(i) == IF i = 1 THEN "a" ELSE IF i = 2 THEN "b" ELSE "c"
makekeyByName(args, kwargs) ==
    <<<<>>, dict2tuple([i \in 1..Len(args) |-> <<ParamName(i), args[i]>>] \o kwargs)>>

\* FunctionCache._makekey(args, kwargs): (args, dict2tuple(kwargs))

makekey(args, kwargs) == <<args, dict2tuple(kwargs)>>

KeyOf(site) == makekey(site.args, site.kwargs)

\* ------------------------------------------------- the wrapped functions
\* hash() of a tuple, as a function of its elements that is one-to-one on the
\* values of the model: a base-3 numeral of the positional values and a base-7
\* numeral of the (name, value) pairs.
RECURSIVE HashInts(_)
HashInts(t) ==
    IF t = <<>> THEN 1 ELSE 3 * HashInts(SubSeq(t, 1, Len(t) - 1)) + t[Len(t)]

RECURSIVE HashPairs(_)
HashPairs(t) ==
    IF t = <<>> THEN 0
    ELSE 7 * HashPairs(SubSeq(t, 1, Len(t) - 1))
         + (2 * (Ord(t[Len(t)][1]) - 1) + t[Len(t)][2])

hash(argtuple) == 10000 * HashInts(argtuple[1]) + HashPairs(argtuple[2])

\* slowfunction(*args, **kwargs): the hash of (args, kwargs sorted by name);
\* hash() of a tuple that holds a list is a TypeError.
slowfunction(args, kwargs) ==
    LET argtuple == <<args, SortedByName(kwargs)>>
    IN  IF HashableSite([args |-> args, kwargs |-> kwargs])
        THEN [kind |-> "value", val |-> hash(argtuple), exc |-> ""]
        ELSE [kind |-> "raise", val |-> 0, exc |-> "TypeError"]

\* Whether kwargs names `name`, and the value it gives it.
HasName(kwargs, name) == \E i \in 1..Len(kwargs) : kwargs[i][1] = name
NamedValue(kwargs, name) ==
    kwargs[CHOOSE i \in 1..Len(kwargs) : kwargs[i][1] = name][2]

\* add2(a, b): Python binds the positional values to a, b in order and the
\* named ones by name; a parameter given twice or left out, a third positional
\* value, or a name add2 does not have is a TypeError raised by the call itself.
\* a + b of a list and an int is a TypeError; of two lists, a list.
add2(args, kwargs) ==
    LET twice   == \/ Len(args) >= 1 /\ HasName(kwargs, "a")
                   \/ Len(args) >= 2 /\ HasName(kwargs, "b")
        missing == \/ Len(args) < 1 /\ ~HasName(kwargs, "a")
                   \/ Len(args) < 2 /\ ~HasName(kwargs, "b")
        unknown == \E i \in 1..Len(kwargs) : kwargs[i][1] \notin {"a", "b"}
        a == IF Len(args) >= 1 THEN args[1] ELSE NamedValue(kwargs, "a")
        b == IF Len(args) >= 2 THEN args[2] ELSE NamedValue(kwargs, "b")
    IN  IF Len(args) > 2 \/ twice \/ missing \/ unknown
        THEN [kind |-> "raise", val |-> 0, exc |-> "TypeError"]
        ELSE IF (a \in Unhashables) # (b \in Unhashables)
        THEN [kind |-> "raise", val |-> 0, exc |-> "TypeError"]
        ELSE [kind |-> "value", val |-> a + b, exc |-> ""]

\* fun(*args, **kwargs) for the function named f.
Apply(f, site) ==
    IF f = "add2" THEN add2(site.args, site.kwargs)
    ELSE slowfunction(site.args, site.kwargs)

Returns(f, site) == Apply(f, site).kind = "value"

\* ------------------------------------------------------ storage and codec
\* What the storage location holds: nothing, a directory, or a file with bytes.
\* Bytes are either a pickle (ok, with the pickled items) or not one.
Absent == [kind |-> "absent", ok |-> FALSE, items |-> {}]
Directory == [kind |-> "dir", ok |-> FALSE, items |-> {}]
File(bytes) == [kind |-> "file", ok |-> bytes.ok, items |-> bytes.items]
\* The bytes of a file opened with 'wb' and never written, or otherwise no pickle.
NoPickle == [ok |-> FALSE, items |-> {}]

\* pkl.dump(self._cache, f): the dict's (key, value) items.
Dump(c) == [ok |-> TRUE, items |-> {<<k, c[k]>> : k \in DOMAIN c}]

\* pkl.load(f) of a pickle: the dict rebuilt from the items.
Load(bytes) ==
    [k \in {it[1] : it \in bytes.items} |->
        (CHOOSE it \in bytes.items : it[1] = k)[2]]

\* dict(): the cache a FunctionCache starts with when there is no file.
EmptyCache == <<>>

\* -------------------------------------------------------------- the state
VARIABLES
    phase,              \* "run", "exit" (the runtime is finalizing), "ended"
    runtimeUp,          \* the module state save() uses (pkl, pathlib) is intact
    fs,                 \* what the storage location holds
    sites,              \* the call sites of this program
    calls,              \* wrapped calls made so far
    st,                 \* per object: "none", "live", "partial"
    cache,              \* per object: self._cache
    savebeforedelete,   \* per object: "True", "False", or "unset" (no attribute)
    named,              \* per object: the program holds a reference to it
    wrappers,           \* per object: the wrapped functions still referenced
    origin,             \* per object: "class", "decorator" (how it was built)
    pre,                \* per object: the entries it loaded when it was built
    ninv,               \* per object: calls of an underlying function that returned
    inserted,           \* items put by wrapped calls into caches cachefunction built
    ret                 \* how the last operation ended

vars == <<phase, runtimeUp, fs, sites, calls, st, cache, savebeforedelete,
          named, wrappers, origin, pre, ninv, inserted, ret>>

\* The variables an operation on the storage location or the runtime leaves alone.
objvars == <<st, cache, savebeforedelete, named, wrappers, origin, pre, ninv>>

\* How the last operation ended.  op is "class" / "decorator" (a construction),
\* "call", "save", "del" (a finalization) or "other"; obj the object; kind is
\* "value" (returned val), "none" (returned None), "raise" (exc went to the
\* caller) or "ignored" (exc was raised inside __del__, where the runtime reports
\* and drops it); saves and invoked count the save() calls and the calls of the
\* underlying function the operation made; fn and site are those of a call.
NoSite == [args |-> <<>>, kwargs |-> <<>>]

Outcome(op, o, kind, val, exc, saves) ==
    [op |-> op, obj |-> o, kind |-> kind, val |-> val, exc |-> exc,
     saves |-> saves, invoked |-> 0, fn |-> "", site |-> NoSite]

CallOutcome(o, f, site, kind, val, exc, invoked) ==
    [op |-> "call", obj |-> o, kind |-> kind, val |-> val, exc |-> exc,
     saves |-> 0, invoked |-> invoked, fn |-> f, site |-> site]

Other == Outcome("other", 0, "none", 0, "", 0)

\* The call sites of the program that exercises the life cycle: f(1,2), f(1).
TestSites ==
    { [args |-> <<1, 2>>, kwargs |-> <<>>],
      [args |-> <<1>>, kwargs |-> <<>>] }

NoObjects ==
    /\ st = [o \in Objs |-> "none"]
    /\ cache = [o \in Objs |-> EmptyCache]
    /\ savebeforedelete = [o \in Objs |-> "unset"]
    /\ named = [o \in Objs |-> FALSE]
    /\ wrappers = [o \in Objs |-> {}]
    /\ origin = [o \in Objs |-> "none"]
    /\ pre = [o \in Objs |-> EmptyCache]
    /\ ninv = [o \in Objs |-> 0]

\* A program starts with no cache object; the storage location does not exist,
\* or is a directory, or is a file that holds no pickle.
Init ==
    /\ phase = "run"
    /\ runtimeUp = TRUE
    /\ fs \in {Absent, Directory, File(NoPickle)}
    /\ sites = TestSites
    /\ calls = 0
    /\ NoObjects
    /\ inserted = {}
    /\ ret = Other

\* ------------------------------------------------------------ operations
\* A _setupfile that would ignore what the file holds.
setupfileIgnoresFile == [ok |-> TRUE, cache |-> EmptyCache, exc |-> ""]

\* A _setupfile that would start a new cache on anything that is not a file.
setupfileAcceptsDirectory ==
    IF fs.kind = "file"
    THEN IF fs.ok
         THEN [ok |-> TRUE, cache |-> Load(fs), exc |-> ""]
         ELSE [ok |-> FALSE, cache |-> EmptyCache, exc |-> "UnpicklingError"]
    ELSE [ok |-> TRUE, cache |-> EmptyCache, exc |-> ""]

\* FunctionCache._setupfile: self._cache, or the error it raises.  The error of
\* pkl.load on bytes that are no pickle is pickle.UnpicklingError (EOFError when
\* the file is empty); "UnpicklingError" stands for both.
setupfile ==
    IF fs.kind # "absent"                               \* self.fpath.exists()
    THEN IF fs.kind = "file"                            \* self.fpath.is_file()
         THEN IF fs.ok
              THEN [ok |-> TRUE, cache |-> Load(fs), exc |-> ""]
              ELSE [ok |-> FALSE, cache |-> EmptyCache, exc |-> "UnpicklingError"]
         ELSE [ok |-> FALSE, cache |-> EmptyCache, exc |-> "Exception"]
    ELSE [ok |-> TRUE, cache |-> EmptyCache, exc |-> ""]

\* An __init__ that would create the file when the location does not exist.
FsAfterInitCreates == IF fs.kind = "absent" THEN File(Dump(EmptyCache)) ELSE fs

\* The storage location after __init__: the constructor only reads.
FsAfterInit == fs

\* FunctionCache.__init__ on a new object o.  When _setupfile raises, the object
\* is left without _cache and without savebeforedelete, referenced only by the
\* traceback ("partial").  how, keep and funs say who holds the new object:
\* the caller's variable (FunctionCache(fpath)) or only the wrapper
\* (cachefunction(fname)(fun)).
init(o, how, keep, funs) ==
    LET r == setupfile
    IN  /\ origin' = [origin EXCEPT ![o] = how]
        /\ pre' = [pre EXCEPT ![o] = r.cache]
        /\ fs' = FsAfterInit
        /\ IF r.ok
           THEN /\ st' = [st EXCEPT ![o] = "live"]
                /\ cache' = [cache EXCEPT ![o] = r.cache]
                /\ savebeforedelete' = [savebeforedelete EXCEPT ![o] = "True"]
                /\ named' = [named EXCEPT ![o] = keep]
                /\ wrappers' = [wrappers EXCEPT ![o] = funs]
                /\ ret' = Outcome(how, o, "none", 0, "", 0)
           ELSE /\ st' = [st EXCEPT ![o] = "partial"]
                /\ UNCHANGED <<cache, savebeforedelete, named, wrappers>>
                /\ ret' = Outcome(how, o, "raise", 0, r.exc, 0)
        /\ UNCHANGED <<phase, runtimeUp, sites, calls, ninv, inserted>>

\* The place a new object takes.
Free == {o \in Objs : st[o] = "none"}
NewObj == CHOOSE o \in Free : \A p \in Free : o <= p

\* fc = FunctionCache(fpath)
Construct ==
    /\ phase = "run"
    /\ Free # {}
    /\ init(NewObj, "class", TRUE, {})

\* fun = cachefunction(fname)(fun): a FunctionCache only the wrapper refers to.
cachefunction(f) ==
    /\ phase = "run"
    /\ Free # {}
    /\ init(NewObj, "decorator", FALSE, {f})

\* fun = fc.decorator(fun)
decorator(o, f) ==
    /\ phase = "run"
    /\ st[o] = "live"
    /\ named[o]
    /\ f \notin wrappers[o]
    /\ wrappers' = [wrappers EXCEPT ![o] = @ \cup {f}]
    /\ ret' = Other
    /\ UNCHANGED <<phase, runtimeUp, fs, sites, calls, st, cache, savebeforedelete,
                   named, origin, pre, ninv, inserted>>

\* A lookup that would never find the entry: every call a miss.
CachedNever(c, cachekey) == FALSE

\* self._cache[cachekey] finds an entry (no KeyError).
Cached(c, cachekey) == cachekey \in DOMAIN c

\* An assignment that would keep only the newest entry.
StoreEvicting(c, cachekey, result) == [k \in {cachekey} |-> result]

\* self._cache[cachekey] = result
Store(c, cachekey, result) ==
    [k \in DOMAIN c \cup {cachekey} |-> IF k = cachekey THEN result ELSE c[k]]

\* A miss that would store an entry whether or not fun returned.
MissStoresAlways(c, cachekey, result) == Store(c, cachekey, result.val)

\* A miss that would write its result over every entry of the cache.
MissOverwritesAll(c, cachekey, result) ==
    IF result.kind = "value"
    THEN [k \in DOMAIN c \cup {cachekey} |-> result.val]
    ELSE c

\* except KeyError: result = fun(*args, **kwargs); self._cache[cachekey] = result.
\* The cache after a miss: an error raised by fun leaves before the assignment.
Miss(c, cachekey, result) ==
    IF result.kind = "value" THEN Store(c, cachekey, result.val) ELSE c

\* How breakpoint() in the except TypeError branch can end: the debugger is
\* switched off or told to continue, and inner_function falls off its end
\* (returns None); or the debugger quits (its input is at end of file, or it is
\* told to quit) and bdb.BdbQuit is raised in the caller.
BreakpointOutcomes == {"continue", "quit"}

\* inner_function(*args, **kwargs) of the wrapper of f on object o.
inner_function(o, f, site) ==
    /\ phase = "run"
    /\ st[o] = "live"
    /\ f \in wrappers[o]
    /\ calls' = calls + 1
    /\ LET cachekey == makekey(site.args, site.kwargs)
           result == Apply(f, site)
       IN  IF ~HashableSite(site)              \* self._cache[cachekey]: TypeError
           THEN /\ \E out \in BreakpointOutcomes :
                      ret' = IF out = "continue"
                             THEN CallOutcome(o, f, site, "none", 0, "", 0)
                             ELSE CallOutcome(o, f, site, "raise", 0, "BdbQuit", 0)
                /\ UNCHANGED <<cache, ninv, inserted>>
           ELSE IF Cached(cache[o], cachekey)
           THEN /\ ret' = CallOutcome(o, f, site, "value", cache[o][cachekey], "", 0)
                /\ UNCHANGED <<cache, ninv, inserted>>
           ELSE /\ cache' = [cache EXCEPT ![o] = Miss(@, cachekey, result)]
                /\ ret' = CallOutcome(o, f, site, result.kind, result.val, result.exc, 1)
                /\ IF result.kind = "value"
                   THEN /\ ninv' = [ninv EXCEPT ![o] = @ + 1]
                        /\ inserted' = IF origin[o] = "decorator"
                                       THEN inserted \cup {<<cachekey, result.val>>}
                                       ELSE inserted
                   ELSE UNCHANGED <<ninv, inserted>>
    /\ UNCHANGED <<phase, runtimeUp, fs, sites, st, savebeforedelete, named,
                   wrappers, origin, pre>>

\* How save() can end.  With the runtime up it writes the file, unless the
\* location is a directory.  Once the runtime has torn the module state down,
\* self.open(self.fpath, 'wb') fails (the path can no longer be converted) or it
\* succeeds and pkl.dump fails (pkl is gone), leaving the file it just emptied.
SaveOutcomes ==
    IF fs.kind = "dir" THEN {"open_failed"}
    ELSE IF runtimeUp THEN {"saved"}
    ELSE {"open_failed", "dump_failed"}

\* A save() that would add to the snapshot the file holds instead of replacing it.
FsAfterSaveMerging(c, out) ==
    IF out = "saved"
    THEN [kind |-> "file", ok |-> TRUE, items |-> fs.items \cup Dump(c).items]
    ELSE IF out = "dump_failed" THEN File(NoPickle)
    ELSE fs

\* The storage location after save() of cache c ended as out.
FsAfterSave(c, out) ==
    IF out = "saved" THEN File(Dump(c))
    ELSE IF out = "dump_failed" THEN File(NoPickle)
    ELSE fs

SaveExc(out) ==
    IF out = "saved" THEN ""
    ELSE IF out = "dump_failed" THEN "AttributeError"
    ELSE IF fs.kind = "dir" THEN "IsADirectoryError" ELSE "TypeError"

\* fc.save()
save(o) ==
    /\ phase = "run"
    /\ st[o] = "live"
    /\ named[o]
    /\ \E out \in SaveOutcomes :
          /\ fs' = FsAfterSave(cache[o], out)
          /\ ret' = Outcome("save", o, IF out = "saved" THEN "none" ELSE "raise",
                            0, SaveExc(out), 1)
    /\ UNCHANGED <<phase, runtimeUp, sites, calls, objvars, inserted>>

\* fc.savebeforedelete = False
ClearFlag(o) ==
    /\ phase = "run"
    /\ st[o] = "live"
    /\ named[o]
    /\ savebeforedelete[o] = "True"
    /\ savebeforedelete' = [savebeforedelete EXCEPT ![o] = "False"]
    /\ ret' = Other
    /\ UNCHANGED <<phase, runtimeUp, fs, sites, calls, st, cache, named, wrappers,
                   origin, pre, ninv, inserted>>

\* if self.savebeforedelete:
ShouldSave(flag) == flag = "True"

\* A __del__ that would save also when the flag attribute is missing.
DelOutcomesSavesUnset(o) ==
    IF savebeforedelete[o] = "False" THEN {"no_save"} ELSE SaveOutcomes

\* How __del__ of object o can end: the attribute is missing (AttributeError),
\* the flag is false (nothing to do), or save() is called and ends as it can.
DelOutcomes(o) ==
    IF savebeforedelete[o] = "unset" THEN {"no_attribute"}
    ELSE IF ShouldSave(savebeforedelete[o]) THEN SaveOutcomes
    ELSE {"no_save"}

\* FunctionCache.__del__ of object o ending as out, and the object's release.
del(o, out) ==
    /\ fs' = FsAfterSave(cache[o], out)
    /\ ret' = Outcome("del", o,
                      IF out \in {"saved", "no_save"} THEN "none" ELSE "ignored",
                      0,
                      IF out = "no_attribute" THEN "AttributeError"
                      ELSE IF out = "no_save" THEN "" ELSE SaveExc(out),
                      IF out \in {"no_attribute", "no_save"} THEN 0 ELSE 1)
    /\ st' = [st EXCEPT ![o] = "none"]
    /\ cache' = [cache EXCEPT ![o] = EmptyCache]
    /\ savebeforedelete' = [savebeforedelete EXCEPT ![o] = "unset"]
    /\ named' = [named EXCEPT ![o] = FALSE]
    /\ wrappers' = [wrappers EXCEPT ![o] = {}]
    /\ origin' = [origin EXCEPT ![o] = "none"]
    /\ pre' = [pre EXCEPT ![o] = EmptyCache]
    /\ ninv' = [ninv EXCEPT ![o] = 0]

\* A reference to object o goes away, leaving keep and funs; the last one gone,
\* the object is finalized at once (reference counting).
Unref(o, keep, funs) ==
    IF keep \/ funs # {}
    THEN /\ named' = [named EXCEPT ![o] = keep]
         /\ wrappers' = [wrappers EXCEPT ![o] = funs]
         /\ ret' = Other
         /\ UNCHANGED <<fs, st, cache, savebeforedelete, origin, pre, ninv>>
    ELSE \E out \in DelOutcomes(o) : del(o, out)

\* del fc
DelName(o) ==
    /\ phase = "run"
    /\ st[o] = "live"
    /\ named[o]
    /\ Unref(o, FALSE, wrappers[o])
    /\ UNCHANGED <<phase, runtimeUp, sites, calls, inserted>>

\* del fun (a wrapper: its closure holds the FunctionCache)
DelWrapper(o, f) ==
    /\ phase = "run"
    /\ st[o] = "live"
    /\ f \in wrappers[o]
    /\ Unref(o, named[o], wrappers[o] \ {f})
    /\ UNCHANGED <<phase, runtimeUp, sites, calls, inserted>>

\* The traceback of a failed construction is released.
ReleasePartial(o) ==
    /\ phase = "run"
    /\ st[o] = "partial"
    /\ \E out \in DelOutcomes(o) : del(o, out)
    /\ UNCHANGED <<phase, runtimeUp, sites, calls, inserted>>

\* unlink(fpath), as the test programs do it: while no cache object exists.
Unlink ==
    /\ phase = "run"
    /\ fs.kind = "file"
    /\ \A o \in Objs : st[o] = "none"
    /\ fs' = Absent
    /\ inserted' = {}
    /\ ret' = Other
    /\ UNCHANGED <<phase, runtimeUp, sites, calls, objvars>>

\* The program reaches its end; the runtime starts to finalize.
Exit ==
    /\ phase = "run"
    /\ phase' = "exit"
    /\ ret' = Other
    /\ UNCHANGED <<runtimeUp, fs, sites, calls, objvars, inserted>>

\* At exit the runtime clears the modules' globals (pkl becomes None).
ModuleTeardown ==
    /\ phase = "exit"
    /\ runtimeUp
    /\ runtimeUp' = FALSE
    /\ ret' = Other
    /\ UNCHANGED <<phase, fs, sites, calls, objvars, inserted>>

\* At exit the runtime finalizes an object that is still there, before or after
\* it has cleared the modules' globals.
ExitFinalize(o) ==
    /\ phase = "exit"
    /\ st[o] \in {"live", "partial"}
    /\ \E out \in DelOutcomes(o) : del(o, out)
    /\ UNCHANGED <<phase, runtimeUp, sites, calls, inserted>>

\* The process is gone.
End ==
    /\ phase = "exit"
    /\ ~runtimeUp
    /\ \A o \in Objs : st[o] = "none"
    /\ phase' = "ended"
    /\ ret' = Other
    /\ UNCHANGED <<runtimeUp, fs, sites, calls, objvars, inserted>>

Next ==
    \/ Construct
    \/ \E f \in Funs : cachefunction(f)
    \/ \E o \in Objs, f \in Funs : decorator(o, f)
    \/ /\ calls < MaxCalls
       /\ \E o \in Objs, f \in Funs, site \in sites : inner_function(o, f, site)
    \/ \E o \in Objs : save(o)
    \/ \E o \in Objs : ClearFlag(o)
    \/ \E o \in Objs : DelName(o)
    \/ \E o \in Objs, f \in Funs : DelWrapper(o, f)
    \/ \E o \in Objs : ReleasePartial(o)
    \/ Unlink
    \/ Exit
    \/ ModuleTeardown
    \/ \E o \in Objs : ExitFinalize(o)
    \/ End

Spec == Init /\ [][Next]_vars

\* The calling program: one cache, built on a location that did not exist, wraps
\* both functions; the program then calls them at two call sites of its own.
InitCalls ==
    /\ phase = "run"
    /\ runtimeUp = TRUE
    /\ fs = Absent
    /\ sites \in {{s1, s2} : s1, s2 \in AllSites}
    /\ calls = 0
    /\ st = [o \in Objs |-> IF o = 1 THEN "live" ELSE "none"]
    /\ cache = [o \in Objs |-> EmptyCache]
    /\ savebeforedelete = [o \in Objs |-> IF o = 1 THEN "True" ELSE "unset"]
    /\ named = [o \in Objs |-> o = 1]
    /\ wrappers = [o \in Objs |-> IF o = 1 THEN Funs ELSE {}]
    /\ origin = [o \in Objs |-> IF o = 1 THEN "class" ELSE "none"]
    /\ pre = [o \in Objs |-> EmptyCache]
    /\ ninv = [o \in Objs |-> 0]
    /\ inserted = {}
    /\ ret = Other

NextCalls ==
    /\ calls < MaxKeyCalls
    /\ \E f \in Funs, site \in sites : inner_function(1, f, site)

SpecCalls == InitCalls /\ [][NextCalls]_vars

\* ================================================================ properties
\* C1: on one FunctionCache the underlying function runs exactly once per
\* distinct canonical key, however often the key is called: the cache keeps
\* the loaded keys, the number of runs that returned is the number of keys in
\* the cache that were not loaded, a call that returned left its key stored
\* with the value it returned, and a call that ran the function (a miss)
\* returned what the function returns for the original arguments.
C1_OncePerKey ==
    /\ \A o \in Objs : st[o] = "live" =>
          /\ DOMAIN pre[o] \subseteq DOMAIN cache[o]
          /\ ninv[o] = Cardinality(DOMAIN cache[o] \ DOMAIN pre[o])
    /\ (ret.op = "call" /\ ret.kind = "value") =>
          /\ KeyOf(ret.site) \in DOMAIN cache[ret.obj]
          /\ cache[ret.obj][KeyOf(ret.site)] = ret.val
          /\ ret.invoked = 1 => ret.val = Apply(ret.fn, ret.site).val

\* One key called three times: the first call ran the function, the last was a hit.
C1_Witness ==
    /\ calls = 3
    /\ Cardinality(sites) = 1
    /\ ninv[1] = 1
    /\ ret.op = "call" /\ ret.invoked = 0

\* C2: round trip.  A save (explicit or at teardown) that completes leaves a file
\* from which the CacheStore of the saving object loads back; a cache constructed
\* on a file that holds a snapshot starts with the snapshot's entries; and a call
\* whose key was loaded is a hit that returns the loaded result without running
\* the underlying function.
C2_RoundTrip ==
    [][ /\ (ret'.op \in {"save", "del"} /\ ret'.saves = 1 /\ ret'.kind = "none") =>
              /\ fs'.kind = "file" /\ fs'.ok
              /\ Load(fs') = cache[ret'.obj]
        /\ (ret'.op \in {"class", "decorator"} /\ ret'.kind = "none"
                /\ fs.kind = "file") =>
              /\ cache'[ret'.obj] = Load(fs)
              /\ pre'[ret'.obj] = Load(fs)
        /\ (ret'.op = "call" /\ KeyOf(ret'.site) \in DOMAIN pre[ret'.obj]) =>
              /\ ret'.invoked = 0
              /\ ret'.kind = "value"
              /\ ret'.val = pre[ret'.obj][KeyOf(ret'.site)]
              /\ cache' = cache
      ]_vars

\* A hit on a loaded key, in a cache built while no other cache object existed,
\* on the file an earlier cache left.
C2_Witness ==
    /\ ret.op = "call" /\ ret.invoked = 0
    /\ KeyOf(ret.site) \in DOMAIN pre[ret.obj]
    /\ \A o \in Objs : o # ret.obj => st[o] = "none"
    /\ fs.kind = "file" /\ fs.ok /\ Load(fs) = cache[ret.obj]

\* C3: the teardown of a FunctionCache whose flag is set calls save() once and
\* the storage location then holds the final CacheStore; with the flag cleared
\* it calls no save and leaves the storage location as it was.
C3_TeardownSaves ==
    [][ /\ (ret'.op = "del" /\ savebeforedelete[ret'.obj] = "True") =>
              /\ ret'.saves = 1
              /\ fs' = File(Dump(cache[ret'.obj]))
        /\ (ret'.op = "del" /\ savebeforedelete[ret'.obj] = "False") =>
              /\ ret'.saves = 0
              /\ fs' = fs
      ]_vars

\* C4: once the program has ended, the storage location holds a snapshot with
\* every entry that wrapped calls inserted into caches built by cachefunction.
C4_DurableAtExit ==
    phase = "ended" =>
        \/ inserted = {}
        \/ fs.kind = "file" /\ fs.ok /\ inserted \subseteq fs.items

\* The named arguments of two call sites are the same set of (name, value)
\* pairs, whatever the order they were written in.
SameNamed(kw1, kw2) ==
    {kw1[i] : i \in 1..Len(kw1)} = {kw2[i] : i \in 1..Len(kw2)}

\* The step is a wrapped call at site s2, whose arguments can be hashed, made
\* while the cache holds the entry of site s1 and no other.
CallAfter(s1, s2) ==
    /\ DOMAIN cache[1] = {KeyOf(s1)}
    /\ HashableSite(s2)
    /\ calls' = calls + 1
    /\ ret'.op = "call" /\ ret'.site = s2

\* C5: call sites with the same positional sequence and the same set of named
\* arguments, written in any order, have equal canonical keys and address one
\* cache entry: after a call at one, a call at the other is a hit on that entry.
C5_NamedOrderIndependent ==
    [][ \A s1, s2 \in sites :
            (s1.args = s2.args /\ SameNamed(s1.kwargs, s2.kwargs)) =>
                /\ makekey(s1.args, s1.kwargs) = makekey(s2.args, s2.kwargs)
                /\ CallAfter(s1, s2) =>
                      /\ ret'.invoked = 0
                      /\ ret'.val = cache[1][KeyOf(s1)]
                      /\ cache' = cache
      ]_vars

\* A call at a site that writes its named arguments out of name order was a hit,
\* in a program whose other site writes the same arguments in name order.
C5_Witness ==
    /\ \E s1, s2 \in sites :
          /\ s1.kwargs # s2.kwargs
          /\ s1.args = s2.args /\ SameNamed(s1.kwargs, s2.kwargs)
          /\ ret.op = "call" /\ ret.site = s2 /\ ret.invoked = 0
          /\ DOMAIN cache[1] = {<<s1.args, s1.kwargs>>}
    /\ ninv[1] = 1

\* C6: call sites whose positional sequences differ have unequal canonical
\* keys and separate cache entries: a call at one never hits the entry of the
\* other, it runs the underlying function and is stored as a second entry.
C6_PositionalOrderSignificant ==
    [][ \A s1, s2 \in sites :
            s1.args # s2.args =>
                /\ makekey(s1.args, s1.kwargs) # makekey(s2.args, s2.kwargs)
                /\ CallAfter(s1, s2) =>
                      /\ ret'.invoked = 1
                      /\ ret'.kind = "value" =>
                            /\ Cardinality(DOMAIN cache'[1]) = 2
                            /\ cache'[1][KeyOf(s1)] = cache[1][KeyOf(s1)]
      ]_vars

\* f(x, y) and f(y, x) with x # y have both been called, and one of them again:
\* two runs of the function, two entries.
C6_Witness ==
    /\ \E s1, s2 \in sites :
          /\ Len(s1.args) = 2 /\ Len(s2.args) = 2
          /\ s1.args[1] # s1.args[2]
          /\ s2.args = <<s1.args[2], s1.args[1]>>
          /\ s1.kwargs = s2.kwargs
    /\ calls = 3
    /\ ninv[1] = 2
    /\ Cardinality(DOMAIN cache[1]) = 2

\* The values add2 binds to (a, b) at a call site where the call is well formed.
Bound(site) ==
    <<IF Len(site.args) >= 1 THEN site.args[1] ELSE NamedValue(site.kwargs, "a"),
      IF Len(site.args) >= 2 THEN site.args[2] ELSE NamedValue(site.kwargs, "b")>>

\* C7: two call sites that give add2 the same values, one passing positionally
\* what the other passes by name, have unequal canonical keys and independent
\* entries: after a call at one, a call at the other runs the underlying
\* function itself and is stored as a second entry.
C7_PositionalVsNamed ==
    [][ \A s1, s2 \in sites :
            (/\ Returns("add2", s1) /\ Returns("add2", s2)
             /\ Bound(s1) = Bound(s2)
             /\ Len(s1.args) # Len(s2.args)) =>
                /\ makekey(s1.args, s1.kwargs) # makekey(s2.args, s2.kwargs)
                /\ CallAfter(s1, s2) =>
                      /\ ret'.invoked = 1
                      /\ ret'.kind = "value"
                      /\ Cardinality(DOMAIN cache'[1]) = 2
      ]_vars

\* f(x, y) and f(a=x, b=y) have both been called on add2: two runs, two entries
\* that hold the same result.
C7_Witness ==
    /\ \E s1, s2 \in sites :
          /\ Len(s1.args) = 2 /\ s1.kwargs = <<>>
          /\ s2.args = <<>> /\ Len(s2.kwargs) = 2
          /\ Returns("add2", s2) /\ Bound(s1) = Bound(s2)
          /\ {KeyOf(s1), KeyOf(s2)} = DOMAIN cache[1]
          /\ cache[1][KeyOf(s1)] = cache[1][KeyOf(s2)]
    /\ ninv[1] = 2

\* The step is a construction (by the class or by cachefunction).
Constructs == ret'.op \in {"class", "decorator"}

\* C8: constructing a FunctionCache on a location that does not exist succeeds
\* with zero entries and creates nothing there; saving it with no entry writes
\* an empty snapshot; and constructing on an empty snapshot yields an empty cache.
C8_NonexistentLocation ==
    [][ /\ (Constructs /\ fs.kind = "absent") =>
              /\ ret'.kind = "none"
              /\ st'[ret'.obj] = "live"
              /\ DOMAIN cache'[ret'.obj] = {}
              /\ fs' = fs
        /\ (ret'.op = "save" /\ fs.kind = "absent" /\ DOMAIN cache[ret'.obj] = {}) =>
              /\ ret'.kind = "none"
              /\ fs'.kind = "file" /\ fs'.ok /\ fs'.items = {}
        /\ (Constructs /\ fs.kind = "file" /\ fs.ok /\ fs.items = {}) =>
              /\ ret'.kind = "none"
              /\ st'[ret'.obj] = "live"
              /\ DOMAIN cache'[ret'.obj] = {}
      ]_vars

\* A cache has been constructed on the empty snapshot that another cache, itself
\* constructed on the nonexistent location and still empty, had saved.
C8_Witness ==
    /\ ret.op = "class" /\ ret.kind = "none"
    /\ fs.kind = "file" /\ fs.ok /\ fs.items = {}
    /\ \A o \in Objs : st[o] = "live" /\ named[o] /\ DOMAIN cache[o] = {}
    /\ calls = 0

\* C9: a save() that succeeds leaves in the storage location exactly the entries
\* of the current CacheStore, whatever the location held, and does not change
\* the CacheStore; a second save() right after it leaves the same snapshot.
C9_SaveSnapshot ==
    [][ /\ (ret'.op = "save" /\ ret'.kind = "none") =>
              /\ fs'.kind = "file" /\ fs'.ok
              /\ fs'.items = {<<k, cache[ret'.obj][k]>> : k \in DOMAIN cache[ret'.obj]}
              /\ cache' = cache
        /\ (/\ ret.op = "save" /\ ret.kind = "none"
            /\ ret'.op = "save" /\ ret'.kind = "none" /\ ret'.obj = ret.obj) =>
              /\ fs' = fs
              /\ cache' = cache
      ]_vars

\* A cache that was built on a snapshot and has since gained an entry has been
\* saved: the file holds its entries, no longer the snapshot it was built on.
C9_Witness ==
    /\ ret.op = "save" /\ ret.kind = "none"
    /\ DOMAIN pre[ret.obj] # {}
    /\ DOMAIN cache[ret.obj] # DOMAIN pre[ret.obj]
    /\ fs.items = {<<k, cache[ret.obj][k]>> : k \in DOMAIN cache[ret.obj]}

\* C10: when the underlying function raises during a miss (a call whose key
\* can be looked up and is not stored), the wrapped call ends with that same
\* error, writes no entry and leaves the CacheStore as it was; a later call
\* with the same key is again a miss that runs the function.
C10_ErrorPropagates ==
    [][ /\ (/\ ret'.op = "call" /\ calls' = calls + 1 /\ ret'.kind = "raise"
            /\ HashableSite(ret'.site)) =>
              /\ ret'.invoked = 1
              /\ Apply(ret'.fn, ret'.site).kind = "raise"
              /\ ret'.exc = Apply(ret'.fn, ret'.site).exc
              /\ cache' = cache
              /\ KeyOf(ret'.site) \notin DOMAIN cache'[ret'.obj]
        /\ (/\ ret.op = "call" /\ ret.kind = "raise" /\ HashableSite(ret.site)
            /\ ret'.op = "call" /\ calls' = calls + 1
            /\ ret'.obj = ret.obj /\ ret'.fn = ret.fn /\ ret'.site = ret.site) =>
              /\ ret'.invoked = 1
              /\ ret'.kind = "raise"
              /\ ret'.exc = ret.exc
        /\ (/\ ret'.op = "call" /\ calls' = calls + 1
            /\ HashableSite(ret'.site)
            /\ KeyOf(ret'.site) \notin DOMAIN cache[ret'.obj]
            /\ Apply(ret'.fn, ret'.site).kind = "raise") =>
              ret'.kind = "raise"
      ]_vars

\* The program's one call site has been called three times and each call ended
\* with the error of the underlying function; the cache is still empty.
C10_Witness ==
    /\ Cardinality(sites) = 1
    /\ calls = 3
    /\ ret.op = "call" /\ ret.kind = "raise" /\ ret.exc = "TypeError"
    /\ DOMAIN cache[1] = {}

\* C11: a wrapped call whose arguments cannot be hashed ends with an error
\* raised to its caller, not with an ordinary return; the underlying function
\* is not run on its behalf and no entry is written.
C11_UnhashableSurfaced ==
    [][ (ret'.op = "call" /\ calls' = calls + 1 /\ ~HashableSite(ret'.site)) =>
            /\ ret'.kind = "raise"
            /\ cache' = cache
      ]_vars

\* C12: constructing a FunctionCache on a location that exists and is not a
\* file raises to the caller at once and leaves no usable cache (no live object,
\* no wrapper); neither the failed construction nor the finalization of the
\* object it leaves writes to the location.
C12_DirectoryLocation ==
    [][ /\ fs.kind = "dir" => \A o \in Objs : st[o] # "live" /\ wrappers[o] = {}
        /\ (Constructs /\ fs.kind = "dir") =>
              /\ ret'.kind = "raise" /\ ret'.exc = "Exception"
              /\ st'[ret'.obj] = "partial"
              /\ ~named'[ret'.obj] /\ wrappers'[ret'.obj] = {}
              /\ fs' = fs
        /\ (ret'.op = "del" /\ st[ret'.obj] = "partial" /\ fs.kind = "dir") =>
              /\ ret'.saves = 0
              /\ fs' = fs
      ]_vars

\* The object left by a construction on a directory has been finalized; the
\* location is still the directory.
C12_Witness ==
    /\ ret.op = "del" /\ ret.kind = "ignored" /\ ret.exc = "AttributeError"
    /\ fs = Directory
    /\ \A o \in Objs : st[o] = "none"

\* C13: constructing a FunctionCache on a file whose contents cannot be loaded
\* raises the load error to the caller and leaves no usable cache; the contents
\* of the file stay as they are, at the construction and at the finalization of
\* the object it leaves.
C13_CorruptFile ==
    [][ /\ (Constructs /\ fs.kind = "file" /\ ~fs.ok) =>
              /\ ret'.kind = "raise" /\ ret'.exc = "UnpicklingError"
              /\ st'[ret'.obj] = "partial"
              /\ ~named'[ret'.obj] /\ wrappers'[ret'.obj] = {}
              /\ fs' = fs
        /\ (ret'.op = "del" /\ st[ret'.obj] = "partial" /\ fs.kind = "file") =>
              /\ ret'.saves = 0
              /\ fs' = fs
      ]_vars

\* The object left by a construction on a file that holds no pickle has been
\* finalized; the file is as it was.
C13_Witness ==
    /\ ret.op = "del" /\ ret.kind = "ignored" /\ ret.exc = "AttributeError"
    /\ fs = File(NoPickle)
    /\ phase = "run"
    /\ \A o \in Objs : st[o] = "none"

\* C14: a save attempt, by save() or by the teardown, either completes and
\* leaves a full snapshot of the CacheStore, or ends with an error (raised to
\* the caller of save(), or raised inside the teardown) and then leaves a
\* snapshot that was there before as it was; an explicit save() leaves the
\* CacheStore unchanged either way.
C14_CompleteOrFail ==
    [][ (ret'.op \in {"save", "del"} /\ ret'.saves = 1) =>
            /\ ret'.op = "save" => cache' = cache
            /\ \/ /\ ret'.kind = "none"
                  /\ fs'.kind = "file" /\ fs'.ok
                  /\ fs'.items = {<<k, cache[ret'.obj][k]>> : k \in DOMAIN cache[ret'.obj]}
               \/ /\ ret'.kind \in {"raise", "ignored"}
                  /\ ret'.exc # ""
                  /\ (fs.kind = "file" /\ fs.ok) => fs' = fs
      ]_vars

\* C15: the CacheStore only grows: over any step in which a cache object stays
\* alive, every key it holds stays with the value stored for it.
C15_Monotone ==
    [][ \A o \in Objs :
            (st[o] = "live" /\ st'[o] = "live") =>
                \A k \in DOMAIN cache[o] :
                    /\ k \in DOMAIN cache'[o]
                    /\ cache'[o][k] = cache[o][k]
      ]_vars

\* A cache that loaded an entry when it was built has gained a second one by a
\* wrapped call and has then been saved: both entries are there.
C15_Witness ==
    /\ ret.op = "save" /\ ret.kind = "none"
    /\ Cardinality(DOMAIN pre[ret.obj]) = 1
    /\ Cardinality(DOMAIN cache[ret.obj]) = 2
    /\ \A k \in DOMAIN pre[ret.obj] : cache[ret.obj][k] = pre[ret.obj][k]

\* C16: every wrapped call of function f at arguments a that returns, returns
\* the value f itself returns for a, also when several functions are wrapped
\* by the same FunctionCache.
C16_Transparent ==
    (ret.op = "call" /\ ret.kind = "value") =>
        /\ Apply(ret.fn, ret.site).kind = "value"
        /\ ret.val = Apply(ret.fn, ret.site).val

\* C17: a save made by the teardown comes only when the cache object is gone
\* and no name and no wrapper refers to it any more, so that no wrapped call
\* can follow it, and the snapshot it leaves holds every entry of the cache.
C17_TeardownSaveLast ==
    [][ (ret'.op = "del" /\ ret'.saves = 1) =>
            /\ st'[ret'.obj] = "none"
            /\ ~named'[ret'.obj] /\ wrappers'[ret'.obj] = {}
            /\ phase' = "run" =>
                  \/ named[ret'.obj] /\ wrappers[ret'.obj] = {}
                  \/ ~named[ret'.obj] /\ Cardinality(wrappers[ret'.obj]) = 1
            /\ \A k \in DOMAIN cache[ret'.obj] :
                  /\ fs'.kind = "file" /\ fs'.ok
                  /\ <<k, cache[ret'.obj][k]>> \in fs'.items
      ]_vars

\* The ordering alone: when the teardown calls save(), the step took away the
\* last reference, and the object is gone afterwards.
TeardownAfterRelease ==
    [][ (ret'.op = "del" /\ ret'.saves = 1) =>
            /\ st'[ret'.obj] = "none"
            /\ ~named'[ret'.obj] /\ wrappers'[ret'.obj] = {}
            /\ phase' = "run" =>
                  \/ named[ret'.obj] /\ wrappers[ret'.obj] = {}
                  \/ ~named[ret'.obj] /\ Cardinality(wrappers[ret'.obj]) = 1
      ]_vars

\* C18: a FunctionCache constructed on the location while no other cache
\* object exists (all earlier ones have been torn down) holds every entry that
\* wrapped calls inserted through the caches cachefunction built on it.
C18_SharedLocation ==
    (/\ phase = "run"
     /\ ret.op \in {"class", "decorator"} /\ ret.kind = "none"
     /\ \A o \in Objs : o # ret.obj => st[o] = "none") =>
        \A it \in inserted : it[1] \in DOMAIN cache[ret.obj]

\* C19: a wrapped call leaves the storage location and every other cache as
\* they are; a call that does not run the underlying function (a hit) leaves
\* the CacheStore as it is; a miss whose function returns adds the entry of its
\* own key, which was absent, and leaves every other entry as it is (a miss
\* whose function raises adds nothing); and the contents of the storage
\* location are written by save() and by the teardown only.
C19_Frame ==
    [][ /\ (ret'.op = "call" /\ calls' = calls + 1) =>
              /\ fs' = fs
              /\ \A p \in Objs : p # ret'.obj => cache'[p] = cache[p]
              /\ ret'.invoked = 0 => cache' = cache
              /\ (ret'.invoked = 1 /\ ret'.kind = "value") =>
                    /\ KeyOf(ret'.site) \notin DOMAIN cache[ret'.obj]
                    /\ DOMAIN cache'[ret'.obj]
                         = DOMAIN cache[ret'.obj] \cup {KeyOf(ret'.site)}
                    /\ cache'[ret'.obj][KeyOf(ret'.site)] = ret'.val
                    /\ \A k \in DOMAIN cache[ret'.obj] :
                          cache'[ret'.obj][k] = cache[ret'.obj][k]
              /\ (ret'.invoked = 1 /\ ret'.kind = "raise") => cache' = cache
        /\ (fs' # fs /\ fs'.kind = "file") => ret'.op \in {"save", "del"}
      ]_vars

\* A miss has added a second entry to a cache that was built on a snapshot,
\* while another cache object exists; the file still holds the snapshot only.
C19_Witness ==
    /\ ret.op = "call" /\ ret.invoked = 1 /\ ret.kind = "value"
    /\ Cardinality(DOMAIN pre[ret.obj]) = 1
    /\ Cardinality(DOMAIN cache[ret.obj]) = 2
    /\ fs.kind = "file" /\ fs.ok /\ Load(fs) = pre[ret.obj]
    /\ \E o \in Objs : o # ret.obj /\ st[o] = "live"

====
